---- MODULE Spec2Model ----
(***************************************************************************)
(* A model of openfisca_survey_manager. From scenarios.py: the             *)
(* initialisation of a simulation from a flat survey table                 *)
(* (init_simulation_with_data_frame and filter_input_variables), the       *)
(* weighted aggregates and pivot tables of AbstractSurveyScenario, its     *)
(* calibrate method and the periods of new_simulation. From surveys.py:    *)
(* the methods of Survey that read and write the tables of its HDF file.   *)
(***************************************************************************)
EXTENDS Integers, Sequences, FiniteSets, TLC

VARIABLES
    pc,                       \* the operation under way and the position inside it
    survey_table,             \* the table as load_table returned it
    input_data_frame,         \* the frame the function works on (changed in place)
    used_as_input_variables,  \* the scenario's whitelist of computed variables
    entities,                 \* simulation.entities: key -> entity fields
    todo,                     \* entities the loop of line 540 has not visited yet
    col,                      \* index of the next column of the loop of line 557
    holders,                  \* variable name -> array given to holder.set_input
    error,                    \* the exception that ended the call, "" if none
    persons,                  \* the persons of the scenario's simulations
    filtering_variable_by_entity,  \* the scenario's filter variable per entity
    simulation,               \* self.simulation: "None" or "Simulation"
    reference_simulation,     \* self.reference_simulation, likewise
    call,                     \* the last call of an aggregation method
    outcome,                  \* "none", "returned" or the exception it raised
    result,                   \* what the last call returned
    parameters,               \* calibrate: its argument parameters
    target_margins_by_variable,  \* calibrate: its argument of that name
    total_population,         \* calibrate: its argument of that name
    steps,                    \* calibrate: the calls it has made, in order
    calibration,              \* calibrate: its local Calibration object
    self_calibration,         \* self.calibration
    has_initialize_weights,   \* whether the scenario's class defines the method
    hdf5_file_path,           \* Survey: self.hdf5_file_path, "None" or "path"
    hdf,                      \* the file at that path: whether it exists, its tables
    tables,                   \* Survey: the names in self.tables
    tables_index,             \* Survey: tables_index, table -> columns
    open_stores,              \* HDFStore handles opened and not closed
    log,                      \* what the last call of a Survey method logged
    survey_call,              \* the last call of a Survey method
    survey_result,            \* what it returned
    calls,                    \* the number of calls of Survey methods so far
    input_data_table_by_period,  \* new_simulation: the period keys of the tables
    periods_todo,             \* the keys the loop of line 339 has not visited
    initialised               \* periods init_simulation_with_data_frame got

initVars == <<pc, survey_table, input_data_frame, used_as_input_variables,
              entities, todo, col, holders, error>>

scenarioVars == <<persons, filtering_variable_by_entity, simulation,
                  reference_simulation, call, outcome, result>>

calibrateVars == <<parameters, target_margins_by_variable, total_population,
                   steps, calibration, self_calibration,
                   has_initialize_weights>>

surveyVars == <<hdf5_file_path, hdf, tables, tables_index, open_stores, log,
                survey_call, survey_result, calls>>

periodVars == <<input_data_table_by_period, periods_todo, initialised>>

\* The variables of the operations modelled further down.
laterVars == <<calibrateVars, surveyVars, periodVars>>

vars == <<pc, survey_table, input_data_frame, used_as_input_variables,
          entities, todo, col, holders, error, persons,
          filtering_variable_by_entity, simulation, reference_simulation,
          call, outcome, result, parameters, target_margins_by_variable,
          total_population, steps, calibration, self_calibration,
          has_initialize_weights, hdf5_file_path, hdf, tables, tables_index,
          open_stores, log, survey_call, survey_result, calls,
          input_data_table_by_period, periods_todo, initialised>>

----------------------------------------------------------------------------
(* Bounds of the model. *)

MaxRows == 4   \* rows (persons) of the input table
MaxId == 2     \* identifiers of a group entity are drawn from 1..MaxId
MaxRole == 1   \* roles are drawn from 0..MaxRole

----------------------------------------------------------------------------
(* The schema: module constants and the tax-benefit system's columns. *)

id_variable_by_entity_key ==
    [famille |-> "idfam", foyer_fiscal |-> "idfoy", menage |-> "idmen"]

role_variable_by_entity_key ==
    [famille |-> "quifam", foyer_fiscal |-> "quifoy", menage |-> "quimen"]

Restrict(f, S) == [x \in S |-> f[x]]

\* simulation.entities: the keys of the entities of the simulation.
EntityKeys == {"individus", "menage"}

\* entity.is_person
is_person(key) == key = "individus"

GroupKeys == {key \in EntityKeys : ~is_person(key)}

\* tax_benefit_system.column_by_name: for each variable its entity, its
\* dtype, its default, whether its formula class is a SimpleFormula and
\* whether that class has a function (the variable is computed).
column_by_name ==
    [salaire |-> [entity |-> "individus", dtype |-> "float", default |-> 0,
                  simple |-> TRUE, function |-> FALSE],
     loyer   |-> [entity |-> "menage", dtype |-> "float", default |-> 0,
                  simple |-> TRUE, function |-> FALSE],
     age     |-> [entity |-> "individus", dtype |-> "int", default |-> 0,
                  simple |-> TRUE, function |-> FALSE],
     impot   |-> [entity |-> "individus", dtype |-> "float", default |-> 0,
                  simple |-> TRUE, function |-> TRUE],
     aide    |-> [entity |-> "menage", dtype |-> "float", default |-> 0,
                  simple |-> FALSE, function |-> TRUE],
     prime   |-> [entity |-> "individus", dtype |-> "float", default |-> 0,
                  simple |-> TRUE, function |-> TRUE],
     poids   |-> [entity |-> "individus", dtype |-> "float", default |-> 0,
                  simple |-> TRUE, function |-> FALSE],
     filtre  |-> [entity |-> "individus", dtype |-> "int", default |-> 0,
                  simple |-> TRUE, function |-> FALSE],
     zone    |-> [entity |-> "individus", dtype |-> "int", default |-> 0,
                  simple |-> TRUE, function |-> FALSE]]

\* The columns of the reference tax-benefit system, which new_simulation
\* gives to a reference simulation: it lacks the variable the reform adds.
reference_column_by_name == Restrict(column_by_name, DOMAIN column_by_name \ {"prime"})

\* self.weight_column_name_by_entity
weight_column_name_by_entity == [individus |-> "poids"]

----------------------------------------------------------------------------
(* Cells, columns and frames. *)

\* A cell of a data column: a number, or the missing value (NaN).
Cell(v) == [nan |-> FALSE, v |-> v]
NaN == [nan |-> TRUE, v |-> 0]

Range(s) == {s[i] : i \in DOMAIN s}

\* A frame: the ordered column names, each column's dtype and its cells.
Frame(columns, dtype, cells) ==
    [columns |-> columns, dtype |-> dtype, cells |-> cells]

\* len(input_data_frame)
FrameLen(frame) ==
    IF Len(frame.columns) = 0 THEN 0 ELSE Len(frame.cells[frame.columns[1]])

\* DataFrame.drop(column_name, axis = 1, inplace = True) for a set of columns
Drop(frame, dropped) ==
    LET kept == SelectSeq(frame.columns, LAMBDA c : c \notin dropped)
    IN  Frame(kept, Restrict(frame.dtype, Range(kept)),
              Restrict(frame.cells, Range(kept)))

----------------------------------------------------------------------------
(* filter_input_variables *)

\* id_variables and role_variables: those of the simulation's group entities
IdVariables == {id_variable_by_entity_key[key] : key \in GroupKeys}
RoleVariables == {role_variable_by_entity_key[key] : key \in GroupKeys}

\* First loop: the columns the schema does not know.
UnknownColumns(frame) ==
    {c \in Range(frame.columns) :
        /\ c \notin IdVariables \cup RoleVariables
        /\ c \notin DOMAIN column_by_name}

\* CalculatedColumns without the whitelist: every computed column is dropped.
CalculatedColumnsNoWhitelist(frame, used) ==
    {c \in Range(frame.columns) :
        /\ c \notin IdVariables \cup RoleVariables
        /\ column_by_name[c].simple
        /\ column_by_name[c].function}

\* Second loop: the columns of a SimpleFormula with a function that
\* used_as_input_variables does not list.
CalculatedColumns(frame, used) ==
    {c \in Range(frame.columns) :
        /\ c \notin IdVariables \cup RoleVariables
        /\ column_by_name[c].simple
        /\ column_by_name[c].function
        /\ c \notin used}

filter_input_variables(frame, used) ==
    LET known == Drop(frame, UnknownColumns(frame))
    IN  Drop(known, CalculatedColumns(known, used))

----------------------------------------------------------------------------
(* init_simulation_with_data_frame: the entities *)

RECURSIVE SeqMax(_)
\* Series.max() of a column of integers with at least one row
SeqMax(s) ==
    IF Len(s) = 1 THEN s[1]
    ELSE LET m == SeqMax(Tail(s)) IN IF s[1] > m THEN s[1] ELSE m

\* (input_data_frame[role_variable] == 0).sum()
RoleZeroCount(roles) == Cardinality({i \in DOMAIN roles : roles[i] = 0})

\* RolesCount without the "+ 1": the largest role itself.
RolesCountNoPlusOne(roles) == SeqMax(roles)

\* int(input_data_frame[role_variable].max() + 1)
RolesCount(roles) == SeqMax(roles) + 1

\* len(input_data_frame[id_variable].unique())
UniqueIdsCount(ids) == Cardinality(Range(ids))

\* UniqueIdsCheck as an upper bound only: fewer role-0 rows than identifiers pass.
UniqueIdsCheckAtMost(count, unique_ids_count) == count <= unique_ids_count

\* assert entity.count == unique_ids_count
UniqueIdsCheck(count, unique_ids_count) == count = unique_ids_count

\* An entity the loop has not reached: no count yet.
NoEntity ==
    [counted |-> FALSE, count |-> 0, roles_count |-> 0,
     members_entity_id |-> <<>>, members_legacy_role |-> <<>>]

IdColumn(frame, key) == frame.cells[id_variable_by_entity_key[key]]
RoleColumn(frame, key) == frame.cells[role_variable_by_entity_key[key]]

----------------------------------------------------------------------------
(* init_simulation_with_data_frame: the columns *)

\* Every identifier and role variable of the module's two dictionaries.
AllIdRoleVariables ==
    Range(id_variable_by_entity_key) \cup Range(role_variable_by_entity_key)

\* column_serie.isnull().any()
HasNull(serie) == \E i \in DOMAIN serie : serie[i].nan

\* input_data_frame.loc[column_serie.isnull(), column_name] = default
FillDefault(serie, default) ==
    [i \in DOMAIN serie |-> IF serie[i].nan THEN Cell(default) ELSE serie[i]]

\* numpy's astype on one value: a float stays as it is; a missing value cast
\* to an integer dtype becomes the smallest 32-bit integer.
AsType(dtype, cell) ==
    IF dtype = "int" /\ cell.nan THEN Cell(-(2^31)) ELSE cell

RECURSIVE RowsWhere(_, _)
\* values[mask]: the values of the rows where mask holds, in order
RowsWhere(values, mask) ==
    IF Len(values) = 0 THEN <<>>
    ELSE IF mask[1] THEN <<values[1]>> \o RowsWhere(Tail(values), Tail(mask))
         ELSE RowsWhere(Tail(values), Tail(mask))

\* RoleZeroMask with the comparison inverted: the rows whose role is not 0.
RoleNonZeroMask(roles) == [i \in DOMAIN roles |-> roles[i] # 0]

\* input_data_frame[role_variable].values == 0
RoleZeroMask(roles) == [i \in DOMAIN roles |-> roles[i] = 0]

\* The array built for a holder from the values of column_serie.
HolderArray(values, column, frame) ==
    LET kept == IF is_person(column.entity) THEN values
                ELSE RowsWhere(values,
                               RoleZeroMask(RoleColumn(frame, column.entity)))
    IN  [i \in DOMAIN kept |-> AsType(column.dtype, kept[i])]

\* assert array.size == entity.count
ArraySizeCheck(array, count) == Len(array) = count

----------------------------------------------------------------------------
(* init_simulation_with_data_frame as a process *)

\* Lines 506-538: the assertions on the arguments, then the filter.
Start ==
    /\ pc = "start"
    /\ IF \E v \in IdVariables \cup RoleVariables :
              v \notin Range(input_data_frame.columns)
       THEN /\ pc' = "failed"
            /\ error' = "AssertionError: id variable not present"
            /\ UNCHANGED input_data_frame
       ELSE /\ input_data_frame' =
                   filter_input_variables(input_data_frame,
                                          used_as_input_variables)
            /\ pc' = "entities"
            /\ UNCHANGED error
    /\ UNCHANGED <<survey_table, used_as_input_variables, entities, todo, col,
                   holders>>
    /\ UNCHANGED <<scenarioVars, laterVars>>

\* Lines 540-555: one turn of the loop over simulation.entities.
EntityStep(key) ==
    /\ pc = "entities"
    /\ key \in todo
    /\ LET n == FrameLen(input_data_frame)
           ids == IdColumn(input_data_frame, key)
           roles == RoleColumn(input_data_frame, key)
           count == RoleZeroCount(roles)
       IN  IF is_person(key)
           THEN /\ entities' = [entities EXCEPT ![key].counted = TRUE,
                                                ![key].count = n]
                /\ pc' = IF todo = {key} THEN "columns" ELSE "entities"
                /\ UNCHANGED error
           ELSE IF n = 0
           THEN \* the maximum of an empty column is NaN, which int() refuses
                /\ entities' = [entities EXCEPT ![key].counted = TRUE,
                                                ![key].count = count]
                /\ pc' = "failed"
                /\ error' = "ValueError: cannot convert float NaN to integer"
           ELSE IF ~UniqueIdsCheck(count, UniqueIdsCount(ids))
           THEN /\ entities' = [entities EXCEPT
                                   ![key].counted = TRUE,
                                   ![key].count = count,
                                   ![key].roles_count = RolesCount(roles)]
                /\ pc' = "failed"
                /\ error' = "AssertionError: persons of role 0"
           ELSE /\ entities' = [entities EXCEPT
                                   ![key].counted = TRUE,
                                   ![key].count = count,
                                   ![key].roles_count = RolesCount(roles),
                                   ![key].members_entity_id = ids,
                                   ![key].members_legacy_role = roles]
                /\ pc' = IF todo = {key} THEN "columns" ELSE "entities"
                /\ UNCHANGED error
    /\ todo' = todo \ {key}
    /\ UNCHANGED <<survey_table, input_data_frame, used_as_input_variables,
                   col, holders>>
    /\ UNCHANGED <<scenarioVars, laterVars>>

\* Lines 557-589: one turn of the loop over the columns of the frame.  The
\* fill of line 573 writes to input_data_frame; the array is read from
\* column_serie, which pandas may have handed out as a view of the frame
\* (it shows the fill) or as a copy (it does not).
ColumnStep(view) ==
    /\ pc = "columns"
    /\ col <= Len(input_data_frame.columns)
    /\ LET name == input_data_frame.columns[col]
           last == col = Len(input_data_frame.columns)
       IN  IF name \in AllIdRoleVariables
           THEN /\ view
                /\ pc' = IF last THEN "done" ELSE "columns"
                /\ UNCHANGED <<input_data_frame, holders, error>>
           ELSE LET column == column_by_name[name]
                    column_serie == input_data_frame.cells[name]
                    fill == /\ input_data_frame.dtype[name] = "float"
                            /\ HasNull(column_serie)
                    filled == FillDefault(column_serie, column.default)
                    values == IF fill /\ view THEN filled ELSE column_serie
                    array == HolderArray(values, column, input_data_frame)
                IN  /\ fill \/ view
                    /\ input_data_frame' =
                           IF fill
                           THEN [input_data_frame EXCEPT !.cells[name] = filled]
                           ELSE input_data_frame
                    /\ IF ArraySizeCheck(array, entities[column.entity].count)
                       THEN /\ holders' =
                                   [v \in DOMAIN holders \cup {name} |->
                                       IF v = name THEN array ELSE holders[v]]
                            /\ pc' = IF last THEN "done" ELSE "columns"
                            /\ UNCHANGED error
                       ELSE /\ pc' = "failed"
                            /\ error' = "AssertionError: Bad size"
                            /\ UNCHANGED holders
    /\ col' = col + 1
    /\ UNCHANGED <<survey_table, used_as_input_variables, entities, todo>>
    /\ UNCHANGED <<scenarioVars, laterVars>>

Next ==
    \/ Start
    \/ \E key \in EntityKeys : EntityStep(key)
    \/ \E view \in BOOLEAN : ColumnStep(view)

----------------------------------------------------------------------------
(* Results of the aggregation methods *)

\* No call yet, and the result of a call that returned nothing.
NoCall ==
    [method |-> "none", aggfunc |-> "none", variable |-> "none",
     filter_by |-> "None", reference |-> FALSE, difference |-> FALSE]
NoResult == [kind |-> "none", num |-> 0, den |-> 1]

\* No Calibration object: the local of calibrate before line 53, and the
\* scenario without a self.calibration.
NoCalibration ==
    [built |-> FALSE,
     parameters |-> [method |-> "unset", invlo |-> "unset", up |-> "unset"],
     total_population |-> "unset", margins |-> "unset",
     calibrated |-> FALSE]

\* parameters = None
NoParameters ==
    [given |-> FALSE, method |-> "absent", invlo |-> "absent", up |-> "absent"]

\* No call of calibrate under way.
NoCalibrate ==
    /\ parameters = NoParameters
    /\ has_initialize_weights = TRUE
    /\ target_margins_by_variable = "None"
    /\ total_population = "None"
    /\ steps = <<>>
    /\ calibration = NoCalibration
    /\ self_calibration = NoCalibration

\* No call of a Survey method, and no value returned by one.
NoSurveyCall ==
    [method |-> "none", table |-> "none", given |-> FALSE, variables |-> {},
     lowercase |-> FALSE, rename_ident |-> FALSE, with_data |-> FALSE,
     data_frame |-> [columns |-> <<>>, rows |-> 0]]
NoSurveyResult == [kind |-> "none", columns |-> <<>>, rows |-> 0, tables |-> {}]

\* No file at the path of the survey.
NoFile == [exists |-> FALSE, tables |-> <<>>]

\* A survey nothing was done with.
NoSurvey ==
    /\ hdf5_file_path = "None"
    /\ hdf = NoFile
    /\ tables = {}
    /\ tables_index = <<>>
    /\ open_stores = 0
    /\ log = <<>>
    /\ survey_call = NoSurveyCall
    /\ survey_result = NoSurveyResult
    /\ calls = 0

\* No call of new_simulation under way.
NoPeriods ==
    /\ input_data_table_by_period = {}
    /\ periods_todo = {}
    /\ initialised = <<>>

\* The state of the operations modelled further down when none is called.
InitLater == NoCalibrate /\ NoSurvey /\ NoPeriods

----------------------------------------------------------------------------
(* Initial states *)

\* The state at the call of init_simulation_with_data_frame.
InitCall(frame, used) ==
    /\ pc = "start"
    /\ survey_table = frame
    /\ input_data_frame = frame
    /\ used_as_input_variables = used
    /\ entities = [key \in EntityKeys |-> NoEntity]
    /\ todo = EntityKeys
    /\ col = 1
    /\ holders = <<>>
    /\ error = ""
    /\ persons = <<>>
    /\ filtering_variable_by_entity = <<>>
    /\ simulation = "None"
    /\ reference_simulation = "None"
    /\ call = NoCall
    /\ outcome = "none"
    /\ result = NoResult
    /\ InitLater

\* A data column without missing values: row i holds the number i.
RowNumbers(n) == [i \in 1..n |-> Cell(i)]

\* Any table of up to MaxRows persons with the columns of one household
\* entity, two input variables, a computed variable and an unknown column.
Init ==
    \E n \in 0..MaxRows :
      \E ids \in [1..n -> 1..MaxId], roles \in [1..n -> 0..MaxRole] :
        InitCall(
            Frame(<<"idmen", "quimen", "salaire", "loyer", "impot", "foo">>,
                  [idmen |-> "int", quimen |-> "int", salaire |-> "float",
                   loyer |-> "float", impot |-> "float", foo |-> "float"],
                  [idmen |-> ids, quimen |-> roles,
                   salaire |-> RowNumbers(n), loyer |-> RowNumbers(n),
                   impot |-> RowNumbers(n), foo |-> RowNumbers(n)]),
            {})

Spec == Init /\ [][Next]_vars

\* The columns a survey table may hold, in the table's column order.
Catalogue ==
    <<"idmen", "quimen", "idfam", "salaire", "loyer", "age", "impot", "aide",
      "foo">>

ColumnDtype(name) ==
    IF name \in {"idmen", "quimen", "idfam", "age"} THEN "int" ELSE "float"

\* A table of three persons in two households (identifiers 1, 1, 2 and
\* roles 0, 1, 0) holding the columns of the set `names`.
SmallTable(names) ==
    LET columns == SelectSeq(Catalogue, LAMBDA c : c \in names)
    IN  Frame(columns,
              [c \in names |-> ColumnDtype(c)],
              [c \in names |->
                  IF c \in {"idmen", "idfam"} THEN <<1, 1, 2>>
                  ELSE IF c = "quimen" THEN <<0, 1, 0>>
                  ELSE RowNumbers(3)])

\* Any set of columns holding the role column, and any whitelist.
InitFilter ==
    \E names \in SUBSET Range(Catalogue), used \in SUBSET {"impot", "aide", "foo"} :
        /\ "quimen" \in names
        /\ InitCall(SmallTable(names), used)

SpecFilter == InitFilter /\ [][Next]_vars

MaxVal == 1   \* the numbers of a float column are drawn from 1..MaxVal

\* The identifiers of a table whose households each start at a role-0 row.
IdsOfRoles(roles) ==
    [i \in DOMAIN roles |->
        Cardinality({j \in 1..i : roles[j] = 0})]

\* A well-formed table (the first person has role 0, every role-0 row
\* starts a household) with one float column, of a person or of a household
\* variable, whose cells are numbers or missing.
InitNaN ==
    \E n \in 1..MaxRows :
      \E roles \in [1..n -> 0..MaxRole],
         cells \in [1..n -> {NaN} \cup {Cell(v) : v \in 1..MaxVal}],
         name \in {"salaire", "loyer"} :
        /\ roles[1] = 0
        /\ InitCall(
               Frame(<<"idmen", "quimen", name>>,
                     [c \in {"idmen", "quimen", name} |-> ColumnDtype(c)],
                     [c \in {"idmen", "quimen", name} |->
                         IF c = "idmen" THEN IdsOfRoles(roles)
                         ELSE IF c = "quimen" THEN roles
                         ELSE cells]),
               {})

SpecNaN == InitNaN /\ [][Next]_vars

----------------------------------------------------------------------------
(* Properties of init_simulation_with_data_frame *)

\* The rows of the table whose role for the entity is 0.
RoleZeroRows(frame, key) ==
    {i \in 1..FrameLen(frame) :
        frame.cells[role_variable_by_entity_key[key]][i] = 0}

\* The distinct identifiers of the entity in the table.
DistinctIds(frame, key) ==
    {frame.cells[id_variable_by_entity_key[key]][i] : i \in 1..FrameLen(frame)}

Mismatch(frame, key) ==
    Cardinality(DistinctIds(frame, key)) # Cardinality(RoleZeroRows(frame, key))

\* The k-th row, in table order, of a set of rows.
NthRow(rows, k) ==
    CHOOSE i \in rows : Cardinality({j \in rows : j < i}) = k - 1

\* C1: the call aborts whenever, for some non-person entity, the number of
\* distinct identifiers differs from the number of rows of role 0: once the
\* loop has visited such an entity the call has failed, and it never reaches
\* the columns.  Whenever it gets past the entities, the two numbers are
\* equal for every non-person entity and equal the entity's count.
C1_AbortsOnIdentifierMismatch ==
    /\ \A key \in GroupKeys :
          (pc # "start" /\ error # "AssertionError: id variable not present"
              /\ Mismatch(survey_table, key))
          => /\ pc \in {"entities", "failed"}
             /\ key \notin todo => pc = "failed"
    /\ pc \in {"columns", "done"} =>
          \A key \in GroupKeys :
             /\ Cardinality(DistinctIds(survey_table, key)) = entities[key].count
             /\ Cardinality(RoleZeroRows(survey_table, key)) = entities[key].count

\* C1 witness: a table with a mismatch on which the call has failed at the
\* assertion of line 550.
C1_Witness ==
    /\ pc = "failed"
    /\ error = "AssertionError: persons of role 0"
    /\ Mismatch(survey_table, "menage")
    /\ "menage" \notin todo

\* C2: in every table the call accepts, each non-person entity has exactly
\* one row of role 0 for each distinct value of its identifier column.
C2_OneRoleZeroRowPerIdentifier ==
    pc = "done" =>
        \A key \in GroupKeys :
            \A v \in DistinctIds(survey_table, key) :
                Cardinality({i \in RoleZeroRows(survey_table, key) :
                    survey_table.cells[id_variable_by_entity_key[key]][i] = v}) = 1

\* C3: after a successful call the person entity's count is the number of
\* rows of the table; each non-person entity's count is the number of rows of
\* role 0 and its roles_count is the largest role plus 1.
C3_CountsAndRolesCount ==
    pc = "done" =>
        \A key \in EntityKeys :
            IF is_person(key)
            THEN entities[key].count = FrameLen(survey_table)
            ELSE LET roles == survey_table.cells[role_variable_by_entity_key[key]]
                     largest == entities[key].roles_count - 1
                 IN  /\ entities[key].count =
                            Cardinality(RoleZeroRows(survey_table, key))
                     /\ \E i \in DOMAIN roles : roles[i] = largest
                     /\ \A i \in DOMAIN roles : roles[i] <= largest

\* C3 witness: the table of 4 persons in 2 households (identifiers 1, 1, 2, 2
\* and roles 0, 1, 0, 1) gives household count 2, roles_count 2 and person
\* count 4.
C3_Witness ==
    /\ pc = "done"
    /\ survey_table.cells["idmen"] = <<1, 1, 2, 2>>
    /\ survey_table.cells["quimen"] = <<0, 1, 0, 1>>
    /\ entities["menage"].count = 2
    /\ entities["menage"].roles_count = 2
    /\ entities["individus"].count = 4

\* C4: every array given to a holder has the length of the count of the
\* holder's entity: for a person variable it is the whole column, for a group
\* variable the column restricted, in order, to the rows where the entity's
\* role is 0; and a call that failed on the size of an array gave that
\* holder no input.
C4_ArrayLengthIsEntityCount ==
    /\ \A name \in DOMAIN holders :
          LET key == column_by_name[name].entity
              source == survey_table.cells[name]
              rows == RoleZeroRows(survey_table, key)
          IN  /\ Len(holders[name]) = entities[key].count
              /\ IF is_person(key)
                 THEN holders[name] = source
                 ELSE /\ Len(holders[name]) = Cardinality(rows)
                      /\ \A k \in 1..Len(holders[name]) :
                            holders[name][k] = source[NthRow(rows, k)]
    /\ error = "AssertionError: Bad size" =>
          input_data_frame.columns[col - 1] \notin DOMAIN holders

\* C4 witness: a finished call in which a household variable received fewer
\* values than the table has rows.
C4_Witness ==
    /\ pc = "done"
    /\ "loyer" \in DOMAIN holders
    /\ "salaire" \in DOMAIN holders
    /\ Len(holders["loyer"]) = 2
    /\ Len(holders["salaire"]) = 4

\* C5: for every floating-point column of the table, the array the holder
\* received holds no missing value: a position that was missing in the source
\* column holds the variable's default, every other position the source value.
C5_NoMissingValueInHolderArray ==
    \A name \in DOMAIN holders :
        survey_table.dtype[name] = "float" =>
            LET key == column_by_name[name].entity
                source == survey_table.cells[name]
                rows == IF is_person(key) THEN 1..FrameLen(survey_table)
                        ELSE RoleZeroRows(survey_table, key)
            IN  \A k \in 1..Len(holders[name]) :
                    /\ ~holders[name][k].nan
                    /\ holders[name][k] =
                          IF source[NthRow(rows, k)].nan
                          THEN Cell(column_by_name[name].default)
                          ELSE source[NthRow(rows, k)]

\* C6 as stated: after the filter the columns are the identifier and role
\* columns of the non-person entities plus every column the schema knows that
\* has no derivation function or is listed in used_as_input_variables.
C6_Original_KeepsInputAndWhitelisted ==
    (pc # "start" /\ error # "AssertionError: id variable not present") =>
        Range(input_data_frame.columns) =
            {c \in Range(survey_table.columns) :
                \/ c \in IdVariables \cup RoleVariables
                \/ /\ c \in DOMAIN column_by_name
                   /\ \/ ~column_by_name[c].function
                      \/ c \in used_as_input_variables}

\* C6 amended: after the filter the columns are a subset of the table's
\* columns, in the table's order, and exactly the identifier and role columns
\* of the non-person entities plus every column the schema knows whose
\* formula class is not a SimpleFormula, or has no function, or is listed in
\* used_as_input_variables; an unknown column is dropped and never makes the
\* call fail.
C6_KeepsInputNonSimpleAndWhitelisted ==
    /\ (pc # "start" /\ error # "AssertionError: id variable not present") =>
          /\ Range(input_data_frame.columns) =
                {c \in Range(survey_table.columns) :
                    \/ c \in IdVariables \cup RoleVariables
                    \/ /\ c \in DOMAIN column_by_name
                       /\ \/ ~column_by_name[c].simple
                          \/ ~column_by_name[c].function
                          \/ c \in used_as_input_variables}
          /\ input_data_frame.columns =
                SelectSeq(survey_table.columns,
                          LAMBDA c : c \in Range(input_data_frame.columns))
    /\ error = "AssertionError: id variable not present" =>
          \E v \in IdVariables \cup RoleVariables :
              v \notin Range(survey_table.columns)

\* C6 witness: the filter has dropped an unknown column and a computed
\* column, and has kept a whitelisted one and one of a non-simple formula.
C6_Witness ==
    /\ pc = "entities"
    /\ {"foo", "impot", "aide", "age"} \subseteq Range(survey_table.columns)
    /\ used_as_input_variables = {"aide"}
    /\ "foo" \notin Range(input_data_frame.columns)
    /\ "impot" \notin Range(input_data_frame.columns)
    /\ "aide" \in Range(input_data_frame.columns)

----------------------------------------------------------------------------
(* Numbers: the floating-point results, kept exact *)

RECURSIVE GCD(_, _)
GCD(a, b) == IF b = 0 THEN a ELSE GCD(b, a % b)

Abs(x) == IF x < 0 THEN -x ELSE x

\* A finite number num/den in lowest terms, not-a-number, and infinity.
Fraction(num, den) ==
    LET g == GCD(Abs(num), den)
    IN  [kind |-> "number", num |-> num \div g, den |-> den \div g]
Number(n) == [kind |-> "number", num |-> n, den |-> 1]
NotANumber == [kind |-> "nan", num |-> 0, den |-> 1]
Infinity(sign) == [kind |-> "inf", num |-> sign, den |-> 1]

Sign(x) == IF x < 0 THEN -1 ELSE 1

\* a / b on floating-point numbers: a division by zero gives an infinity or
\* not-a-number, never an exception.
Divide(a, b) ==
    IF a.kind = "nan" \/ b.kind = "nan" THEN NotANumber
    ELSE IF a.kind = "inf"
    THEN IF b.kind = "inf" THEN NotANumber
         ELSE Infinity(a.num * Sign(b.num))
    ELSE IF b.kind = "inf" THEN Number(0)
    ELSE IF b.num = 0
    THEN IF a.num = 0 THEN NotANumber ELSE Infinity(Sign(a.num))
    ELSE Fraction(a.num * b.den * Sign(b.num), a.den * Abs(b.num))

\* a - b on floating-point numbers
Subtract(a, b) ==
    IF a.kind = "nan" \/ b.kind = "nan" THEN NotANumber
    ELSE IF a.kind = "inf"
    THEN IF b.kind = "inf" /\ a.num = b.num THEN NotANumber ELSE a
    ELSE IF b.kind = "inf" THEN Infinity(-b.num)
    ELSE Fraction(a.num * b.den - b.num * a.den, a.den * b.den)

RECURSIVE SumSeq(_)
\* ndarray.sum()
SumSeq(s) == IF Len(s) = 0 THEN 0 ELSE s[1] + SumSeq(Tail(s))

----------------------------------------------------------------------------
(* The simulations of a scenario *)

\* The value of the computed variable "impot" for an income: the scenario's
\* tax-benefit system taxes twice what the reference system does.
Impot(reference, income) == IF reference THEN income ELSE 2 * income

\* simulation.calculate_add(variable): one value per person.
calculate_add(reference, variable) ==
    [i \in DOMAIN persons |->
        CASE variable = "poids" -> persons[i].w
          [] variable = "filtre" -> persons[i].f
          [] variable = "zone" -> persons[i].z
          [] variable = "impot" -> Impot(reference, persons[i].v)
          [] OTHER -> persons[i].v]

\* simulation.tax_benefit_system.column_by_name of the chosen simulation
SimulationColumns(reference) ==
    IF reference THEN DOMAIN reference_column_by_name
    ELSE DOMAIN column_by_name

\* self.filtering_variable_by_entity.get(entity_key)
FilteringVariable(entity_key) ==
    IF entity_key \in DOMAIN filtering_variable_by_entity
    THEN filtering_variable_by_entity[entity_key] ELSE "None"

\* A filter_dummy that holds the persons' filter flags even without a filter.
FilterDummyAlwaysFiltered(reference, filter_by) ==
    [i \in DOMAIN persons |-> persons[i].f]

\* filter_dummy: the filter variable's values, or the scalar 1.0
FilterDummy(reference, filter_by) ==
    IF filter_by = "None" THEN [i \in DOMAIN persons |-> 1]
    ELSE calculate_add(reference, filter_by)

AggFuncs == {"count", "mean", "sum"}

----------------------------------------------------------------------------
(* compute_aggregate *)

\* (value * weight * filter_dummy).sum(): not-a-number when the value is
\* the scalar NaN of an unknown variable
WeightedSum(known, value, weight, filter_dummy) ==
    IF known
    THEN Number(SumSeq([i \in DOMAIN value |->
                           value[i] * weight[i] * filter_dummy[i]]))
    ELSE NotANumber

\* (weight * filter_dummy).sum()
WeightedCount(weight, filter_dummy) ==
    Number(SumSeq([i \in DOMAIN weight |-> weight[i] * filter_dummy[i]]))

\* aggregate_result whose mean divides by the weights without the filter.
aggregate_result_unfiltered_mass(aggfunc, known, value, weight, filter_dummy) ==
    IF aggfunc = "sum" THEN WeightedSum(known, value, weight, filter_dummy)
    ELSE IF aggfunc = "mean"
    THEN Divide(WeightedSum(known, value, weight, filter_dummy),
                Number(SumSeq(weight)))
    ELSE WeightedCount(weight, filter_dummy)

\* Lines 113-118: the three aggregation functions.
aggregate_result(aggfunc, known, value, weight, filter_dummy) ==
    IF aggfunc = "sum" THEN WeightedSum(known, value, weight, filter_dummy)
    ELSE IF aggfunc = "mean"
    THEN Divide(WeightedSum(known, value, weight, filter_dummy),
                WeightedCount(weight, filter_dummy))
    ELSE WeightedCount(weight, filter_dummy)

\* What a call does: the exception it raises ("" if none), whether it got
\* as far as looking up or creating its simulation, and what it returns.
RaiseAfterSelection(exception, selected) ==
    [raised |-> exception, selected |-> TRUE, result |-> NoResult]
Raise(exception, selected) ==
    [raised |-> exception, selected |-> selected, result |-> NoResult]
Return(value) == [raised |-> "", selected |-> TRUE, result |-> value]

\* compute_aggregate, lines 76-118.
aggregate(variable, aggfunc, filter_by, reference) ==
    IF aggfunc \notin AggFuncs THEN Raise("AssertionError", FALSE)
    ELSE IF filter_by = "None" /\ variable \notin DOMAIN column_by_name
    THEN Raise("KeyError", FALSE)
    ELSE
    LET filter == IF filter_by = "None"
                  THEN FilteringVariable(column_by_name[variable].entity)
                  ELSE filter_by
    IN  IF filter # "None" /\ filter \notin DOMAIN column_by_name
        THEN Raise("AssertionError", TRUE)
        ELSE IF variable \notin DOMAIN column_by_name
        THEN Raise("KeyError", TRUE)
        ELSE IF column_by_name[variable].entity
                    \notin DOMAIN weight_column_name_by_entity
        THEN Raise("KeyError", TRUE)
        ELSE
        LET entity_weight ==
                weight_column_name_by_entity[column_by_name[variable].entity]
        IN  Return(aggregate_result(
                aggfunc,
                variable \in SimulationColumns(reference),
                calculate_add(reference, variable),
                calculate_add(reference, entity_weight),
                FilterDummy(reference, filter)))

\* self.simulation or self.new_simulation(), and the same for the reference:
\* new_simulation stores the simulation it creates (lines 404-407).
Select(selected, reference) ==
    /\ simulation' = IF selected /\ ~reference THEN "Simulation" ELSE simulation
    /\ reference_simulation' =
          IF selected /\ reference THEN "Simulation" ELSE reference_simulation

ComputeAggregate(variable, aggfunc, filter_by, reference) ==
    LET done == aggregate(variable, aggfunc, filter_by, reference)
    IN  /\ pc = "idle"
        /\ outcome = "none"
        /\ call' = [method |-> "compute_aggregate", aggfunc |-> aggfunc,
                    variable |-> variable, filter_by |-> filter_by,
                    reference |-> reference, difference |-> FALSE]
        /\ outcome' = IF done.raised = "" THEN "returned" ELSE done.raised
        /\ result' = done.result
        /\ Select(done.selected, reference)
        /\ UNCHANGED <<persons, filtering_variable_by_entity>>
        /\ UNCHANGED <<initVars, laterVars>>

\* The arguments the calls are made with.
CallVariables == {"impot", "prime", "foo"}
CallAggFuncs == AggFuncs \cup {"median"}
CallFilters == {"None", "filtre"}

NextAggregate ==
    \E variable \in CallVariables, aggfunc \in CallAggFuncs,
       filter_by \in CallFilters, reference \in BOOLEAN :
        ComputeAggregate(variable, aggfunc, filter_by, reference)

MaxPersons == 2   \* persons of a scenario's simulations
Weights == {1, 2}
Zones == {1, 2}

PersonCode(p) == ((p.z * (MaxVal + 1) + p.v) * 3 + p.w) * 2 + p.f

\* A scenario before a call of an aggregation method: persons with an
\* income, a weight, a filter flag and a zone (listed in a fixed order, the
\* order of the persons changes no sum), with or without a filter variable
\* declared for the persons, and with or without the simulations that
\* earlier calls have created.
InitScenario(zones) ==
    /\ pc = "idle"
    /\ survey_table = <<>>
    /\ input_data_frame = <<>>
    /\ used_as_input_variables = {}
    /\ entities = <<>>
    /\ todo = {}
    /\ col = 1
    /\ holders = <<>>
    /\ error = ""
    /\ \E n \in 1..MaxPersons :
         \E ps \in [1..n -> [v : 0..MaxVal, w : Weights, f : {0, 1}, z : zones]] :
            /\ \A i \in 1..(n - 1) : PersonCode(ps[i]) <= PersonCode(ps[i + 1])
            /\ persons = ps
    /\ filtering_variable_by_entity \in {<<>>, [individus |-> "filtre"]}
    /\ simulation \in {"None", "Simulation"}
    /\ reference_simulation \in {"None", "Simulation"}
    /\ call = NoCall
    /\ outcome = "none"
    /\ result = NoResult
    /\ InitLater

InitAggregate == InitScenario({1})

SpecAggregate == InitAggregate /\ [][NextAggregate]_vars

----------------------------------------------------------------------------
(* compute_pivot_table *)

\* The values of the index variable found among the persons: the cells of
\* a pivot table.
Cells(index) == {index[i] : i \in DOMAIN index}

\* DataFrame.pivot_table(index, values, aggfunc = 'sum'): per cell, the sum
\* of a column over the persons of the cell.
PivotSum(index, column) ==
    [c \in Cells(index) |->
        SumSeq([i \in DOMAIN column |-> IF index[i] = c THEN column[i] ELSE 0])]

\* Lines 183-196: the frame of the calculated variables, the value column
\* multiplied by the weight and the filter, the two pivots and the result.
pivot_result(aggfunc, known, index, value, weight, filter_dummy) ==
    LET weighted == [i \in DOMAIN value |->
                        value[i] * weight[i] * filter_dummy[i]]
        sums == PivotSum(index, weighted)
        pivot_sum == [c \in Cells(index) |->
                         IF known THEN Number(sums[c]) ELSE NotANumber]
        masses == PivotSum(index, weight)
        pivot_mass == [c \in Cells(index) |-> Number(masses[c])]
    IN  IF aggfunc = "mean"
        THEN [c \in Cells(index) |-> Divide(pivot_sum[c], pivot_mass[c])]
        ELSE IF aggfunc = "sum" THEN pivot_sum
        ELSE pivot_mass

\* The variable the pivot tables are indexed by.
IndexVariable == "zone"

\* Lines 124-127 of compute_pivot_table: tax_benefit_system is bound only
\* when filter_by is None, and is read on the next line in either case; then
\* filter_by becomes the entity's filtering variable.
pivot_filter(values, filter_by) ==
    IF filter_by # "None" THEN Raise("UnboundLocalError", FALSE)
    ELSE IF values \notin DOMAIN column_by_name THEN Raise("KeyError", FALSE)
    ELSE Return(FilteringVariable(column_by_name[values].entity))

\* compute_pivot_table without difference, lines 120-196, for values = [values].
pivot(aggfunc, values, filter_by, reference) ==
    IF aggfunc \notin AggFuncs THEN Raise("AssertionError", FALSE)
    ELSE IF pivot_filter(values, filter_by).raised # ""
    THEN pivot_filter(values, filter_by)
    ELSE
    LET filter == pivot_filter(values, filter_by).result
        entity_key == column_by_name[values].entity
    IN  IF entity_key \notin DOMAIN weight_column_name_by_entity
        THEN Raise("KeyError", TRUE)
        ELSE
        LET weight == weight_column_name_by_entity[entity_key]
            variables == {IndexVariable, values, weight} \cup
                         (IF filter # "None" THEN {filter} ELSE {})
        IN  IF \E v \in variables : v \notin DOMAIN column_by_name
            THEN Raise("KeyError", TRUE)
            ELSE IF \E v \in variables : column_by_name[v].entity # entity_key
            THEN Raise("AssertionError", TRUE)
            ELSE Return(pivot_result(
                     aggfunc,
                     values \in SimulationColumns(reference),
                     calculate_add(reference, IndexVariable),
                     calculate_add(reference, values),
                     calculate_add(reference, weight),
                     FilterDummy(reference, filter)))

\* pivot - pivot of two tables with the same cells
PivotDifference(a, b) == [c \in DOMAIN a |-> Subtract(a[c], b[c])]

ComputePivotTable(aggfunc, values, filter_by, reference, difference) ==
    /\ pc = "idle"
    /\ outcome = "none"
    /\ call' = [method |-> "compute_pivot_table", aggfunc |-> aggfunc,
                variable |-> values, filter_by |-> filter_by,
                reference |-> reference, difference |-> difference]
    /\ IF ~difference
       THEN LET done == pivot(aggfunc, values, filter_by, reference)
            IN  /\ outcome' = IF done.raised = "" THEN "returned" ELSE done.raised
                /\ result' = done.result
                /\ Select(done.selected, reference)
       ELSE \* lines 143-148: the two calls pass the filter_by of line 127 on
            IF aggfunc \notin AggFuncs
            THEN /\ outcome' = "AssertionError"
                 /\ result' = NoResult
                 /\ UNCHANGED <<simulation, reference_simulation>>
            ELSE IF pivot_filter(values, filter_by).raised # ""
            THEN /\ outcome' = pivot_filter(values, filter_by).raised
                 /\ result' = NoResult
                 /\ UNCHANGED <<simulation, reference_simulation>>
            ELSE LET filter == pivot_filter(values, filter_by).result
                     current == pivot(aggfunc, values, filter, FALSE)
                     before == pivot(aggfunc, values, filter, TRUE)
                 IN  IF current.raised # ""
                     THEN /\ outcome' = current.raised
                          /\ result' = NoResult
                          /\ Select(current.selected, FALSE)
                     ELSE IF before.raised # ""
                     THEN /\ outcome' = before.raised
                          /\ result' = NoResult
                          /\ simulation' = "Simulation"
                          /\ reference_simulation' =
                                IF before.selected THEN "Simulation"
                                ELSE reference_simulation
                     ELSE /\ outcome' = "returned"
                          /\ result' = PivotDifference(current.result,
                                                       before.result)
                          /\ simulation' = "Simulation"
                          /\ reference_simulation' = "Simulation"
    /\ UNCHANGED <<persons, filtering_variable_by_entity>>
    /\ UNCHANGED <<initVars, laterVars>>

NextPivot ==
    \/ \E variable \in CallVariables, aggfunc \in CallAggFuncs,
          filter_by \in CallFilters, reference \in BOOLEAN :
           ComputeAggregate(variable, aggfunc, filter_by, reference)
    \/ \E values \in CallVariables, aggfunc \in CallAggFuncs,
          filter_by \in CallFilters, reference \in BOOLEAN,
          difference \in BOOLEAN :
           ComputePivotTable(aggfunc, values, filter_by, reference, difference)

InitPivot == InitScenario(Zones)

SpecPivot == InitPivot /\ [][NextPivot]_vars

\* The two methods on the scenarios whose persons all live in one zone.
SpecOneZone == InitAggregate /\ [][NextPivot]_vars

----------------------------------------------------------------------------
(* Properties of compute_aggregate and compute_pivot_table *)

\* The sum of the values of a function on 1..n.
SumOver(f) ==
    LET partial[n \in 0..Len(f)] == IF n = 0 THEN 0 ELSE partial[n - 1] + f[n]
    IN  partial[Len(f)]

\* The filter in effect in a call: the filter_by given, else the filtering
\* variable declared for the entity of the variable.
FilterInEffect ==
    IF call.filter_by # "None" THEN call.filter_by
    ELSE IF call.variable \in DOMAIN column_by_name
    THEN FilteringVariable(column_by_name[call.variable].entity)
    ELSE "None"

\* Per person: value * weight * filter and weight * filter of the call.
PersonValue(i) ==
    IF call.variable = "impot"
    THEN (IF call.reference THEN 1 ELSE 2) * persons[i].v
    ELSE persons[i].v
PersonFilter(i) == IF FilterInEffect = "None" THEN 1 ELSE persons[i].f
WeightedValues ==
    [i \in DOMAIN persons |-> PersonValue(i) * persons[i].w * PersonFilter(i)]
WeightedFilter ==
    [i \in DOMAIN persons |-> persons[i].w * PersonFilter(i)]

\* C7: for one variable, filter and scenario variant, the result of
\* compute_aggregate with 'mean' is its result with 'sum' divided by its
\* result with 'count'; for a variable the simulation knows, 'sum' is the
\* total of value * weight * filter and 'count' the total of weight * filter.
C7_MeanIsSumOverCount ==
    (call.method = "compute_aggregate" /\ outcome = "returned") =>
        LET sum == aggregate(call.variable, "sum", call.filter_by,
                             call.reference).result
            count == aggregate(call.variable, "count", call.filter_by,
                               call.reference).result
            known == call.variable \in SimulationColumns(call.reference)
        IN  /\ call.aggfunc = "mean" => result = Divide(sum, count)
            /\ call.aggfunc = "sum" => result = sum
            /\ call.aggfunc = "count" => result = count
            /\ known => sum = Number(SumOver(WeightedValues))
            /\ count = Number(SumOver(WeightedFilter))
            /\ (call.aggfunc = "mean" /\ known) =>
                  result = Divide(Number(SumOver(WeightedValues)),
                                  Number(SumOver(WeightedFilter)))

\* C7 witness: a mean that returned a positive number with a filter in
\* effect that leaves a person out.
C7_Witness ==
    /\ call.method = "compute_aggregate"
    /\ call.aggfunc = "mean"
    /\ outcome = "returned"
    /\ FilterInEffect = "filtre"
    /\ \E i \in DOMAIN persons : persons[i].f = 0
    /\ result.kind = "number"
    /\ result.num > 0

\* The persons of a cell of the pivot table.
CellPersons(c) == {i \in DOMAIN persons : persons[i].z = c}

\* The sum of the values of a function on 1..n over the persons of a cell.
CellTotal(f, c) ==
    SumOver([i \in DOMAIN f |-> IF i \in CellPersons(c) THEN f[i] ELSE 0])

\* C8: in compute_pivot_table with a filter variable in effect, each cell of
\* the 'count' result is the sum over the cell's persons of weight * filter,
\* and each cell of the 'mean' result is the sum of value * weight * filter
\* divided by that same mass.
C8_PivotMassIsFiltered ==
    (/\ call.method = "compute_pivot_table"
     /\ ~call.difference
     /\ outcome = "returned"
     /\ FilterInEffect # "None"
     /\ call.variable \in SimulationColumns(call.reference)) =>
        \A c \in DOMAIN result :
            /\ call.aggfunc = "count" =>
                  result[c] = Number(CellTotal(WeightedFilter, c))
            /\ call.aggfunc = "mean" =>
                  result[c] = Divide(Number(CellTotal(WeightedValues, c)),
                                     Number(CellTotal(WeightedFilter, c)))

\* Whether a result is not-a-number: the number itself, or every cell of the
\* pivot table.
IsNotANumber(r) ==
    IF call.method = "compute_aggregate" THEN r.kind = "nan"
    ELSE \A c \in DOMAIN r : r[c].kind = "nan"

\* C9: compute_aggregate and compute_pivot_table, called with a variable
\* that the schema of the simulation does not know, return a not-a-number
\* result instead of raising an error.
C9_UnknownVariableGivesNaN ==
    (/\ call.method \in {"compute_aggregate", "compute_pivot_table"}
     /\ call.aggfunc \in AggFuncs
     /\ call.filter_by = "None"
     /\ ~call.difference
     /\ call.variable \notin SimulationColumns(call.reference)) =>
        /\ outcome = "returned"
        /\ IsNotANumber(result)

\* C10: compute_pivot_table with difference set returns, cell by cell, the
\* pivot of the current simulation minus the pivot of the reference
\* simulation, both with the aggfunc, values and filter of the call.
C10_DifferenceIsPivotMinusPivot ==
    (/\ call.method = "compute_pivot_table"
     /\ call.difference
     /\ call.aggfunc \in AggFuncs
     /\ call.filter_by = "None"
     /\ call.variable = "impot") =>
        /\ outcome = "returned"
        /\ LET current == pivot(call.aggfunc, call.variable, call.filter_by,
                                FALSE).result
               before == pivot(call.aggfunc, call.variable, call.filter_by,
                               TRUE).result
           IN  /\ DOMAIN result = DOMAIN current
               /\ \A c \in DOMAIN result :
                     result[c] = Subtract(current[c], before[c])

\* The call is a compute_aggregate of a sum, with filter_by = None, of a
\* variable its simulation knows, on persons who all have weight 1.
PlainSumCall ==
    /\ call.method = "compute_aggregate"
    /\ call.aggfunc = "sum"
    /\ call.filter_by = "None"
    /\ call.variable \in SimulationColumns(call.reference)
    /\ \A i \in DOMAIN persons : persons[i].w = 1

\* The plain sum of the variable's values over all the persons.
PlainSum == Number(SumOver([i \in DOMAIN persons |-> PersonValue(i)]))

----------------------------------------------------------------------------
(* calibrate *)

\* Line 56: the methods of a calibration.
Methods == {"linear", "raking ratio", "logit"}

\* A parameters dictionary: each of its keys holds a value, holds None or is
\* absent ("absent").
Parameters(method, invlo, up) ==
    [given |-> TRUE, method |-> method, invlo |-> invlo, up |-> up]

\* Line 62 with another default method.
DefaultParametersLinear == Parameters("linear", "3", "3")

\* Line 62: dict(method = 'logit', up = 3, invlo = 3)
DefaultParameters == Parameters("logit", "3", "3")

\* Lines 55-60: the exception the validation of the parameters raises, ""
\* when it passes. Reading a key that is absent raises KeyError.
ParametersError(p) ==
    IF ~p.given THEN ""
    ELSE IF p.method = "absent" THEN "KeyError"
    ELSE IF p.method \notin Methods THEN "AssertionError"
    ELSE IF p.method # "logit" THEN ""
    ELSE IF p.invlo = "absent" THEN "KeyError"
    ELSE IF p.invlo = "None" THEN "AssertionError"
    ELSE IF p.up = "absent" THEN "KeyError"
    ELSE IF p.up = "None" THEN "AssertionError"
    ELSE ""

\* dict.update: the keys of the argument replace those of the dictionary.
Update(old, new) ==
    [method |-> IF new.method = "absent" THEN old.method ELSE new.method,
     invlo |-> IF new.invlo = "absent" THEN old.invlo ELSE new.invlo,
     up |-> IF new.up = "absent" THEN old.up ELSE new.up]

\* Line 52: survey_scenario.initialize_weights(), a method the subclasses
\* define.
CalibrateInitializeWeights ==
    /\ pc = "calibrate"
    /\ IF has_initialize_weights
       THEN /\ steps' = Append(steps, "initialize_weights")
            /\ pc' = "build"
            /\ UNCHANGED outcome
       ELSE /\ outcome' = "AttributeError"
            /\ pc' = "failed"
            /\ UNCHANGED steps
    /\ UNCHANGED <<parameters, target_margins_by_variable, total_population,
                   calibration, self_calibration, has_initialize_weights>>

\* Line 53: calibration = Calibration(survey_scenario)
CalibrateBuild ==
    /\ pc = "build"
    /\ steps' = Append(steps, "Calibration")
    /\ calibration' = [NoCalibration EXCEPT !.built = TRUE]
    /\ pc' = "validate"
    /\ UNCHANGED <<parameters, target_margins_by_variable, total_population,
                   self_calibration, has_initialize_weights, outcome>>

\* Lines 55-62: the parameters after the if: those given, or the default.
EffectiveParameters(p) == IF p.given THEN p ELSE DefaultParameters

\* Lines 55-60: the validation of the parameters.
CalibrateValidate ==
    /\ pc = "validate"
    /\ IF ParametersError(parameters) # ""
       THEN /\ outcome' = ParametersError(parameters)
            /\ pc' = "failed"
       ELSE /\ pc' = "update"
            /\ UNCHANGED outcome
    /\ UNCHANGED <<parameters, target_margins_by_variable, total_population,
                   steps, calibration, self_calibration,
                   has_initialize_weights>>

\* Lines 64-67: calibration.parameters.update(parameters), and the total
\* population when one is given that is not zero.
CalibrateUpdate ==
    /\ pc = "update"
    /\ steps' = Append(steps, "parameters.update")
    /\ calibration' =
          [calibration EXCEPT
              !.parameters = Update(@, EffectiveParameters(parameters)),
              !.total_population =
                  IF total_population \in {"None", "0"} THEN @
                  ELSE total_population]
    /\ pc' = "margins"
    /\ UNCHANGED <<parameters, target_margins_by_variable, total_population,
                   self_calibration, has_initialize_weights, outcome>>

\* Lines 69-70: calibration.set_target_margins, when margins are given.
CalibrateSetTargetMargins ==
    /\ pc = "margins"
    /\ IF target_margins_by_variable # "None"
       THEN /\ steps' = Append(steps, "set_target_margins")
            /\ calibration' =
                  [calibration EXCEPT !.margins = target_margins_by_variable]
       ELSE UNCHANGED <<steps, calibration>>
    /\ pc' = "run"
    /\ UNCHANGED <<parameters, target_margins_by_variable, total_population,
                   self_calibration, has_initialize_weights, outcome>>

\* Line 72: calibration.calibrate(), which returns or raises.
CalibrateRun(raises) ==
    /\ pc = "run"
    /\ steps' = Append(steps, "calibrate")
    /\ IF raises
       THEN /\ outcome' = "Exception"
            /\ pc' = "failed"
            /\ UNCHANGED calibration
       ELSE /\ calibration' = [calibration EXCEPT !.calibrated = TRUE]
            /\ pc' = "apply"
            /\ UNCHANGED outcome
    /\ UNCHANGED <<parameters, target_margins_by_variable, total_population,
                   self_calibration, has_initialize_weights>>

\* Lines 73-74: calibration.set_calibrated_weights() and
\* self.calibration = calibration.
CalibrateApply ==
    /\ pc = "apply"
    /\ steps' = Append(steps, "set_calibrated_weights")
    /\ self_calibration' = calibration
    /\ outcome' = "returned"
    /\ pc' = "calibrated"
    /\ UNCHANGED <<parameters, target_margins_by_variable, total_population,
                   calibration, has_initialize_weights>>

NextCalibrate ==
    /\ \/ CalibrateInitializeWeights
       \/ CalibrateBuild
       \/ CalibrateValidate
       \/ CalibrateUpdate
       \/ CalibrateSetTargetMargins
       \/ \E raises \in BOOLEAN : CalibrateRun(raises)
       \/ CalibrateApply
    /\ UNCHANGED <<survey_table, input_data_frame, used_as_input_variables,
                   entities, todo, col, holders, error>>
    /\ UNCHANGED <<persons, filtering_variable_by_entity, simulation,
                   reference_simulation, call, result>>
    /\ UNCHANGED <<surveyVars, periodVars>>

\* The values a key of the parameters is given with.
KeyValues == {"absent", "None", "2"}

\* A call of calibrate: any parameters, margins and total population, on a
\* scenario that was calibrated before or not.
InitCalibrate ==
    /\ pc = "calibrate"
    /\ survey_table = <<>>
    /\ input_data_frame = <<>>
    /\ used_as_input_variables = {}
    /\ entities = <<>>
    /\ todo = {}
    /\ col = 1
    /\ holders = <<>>
    /\ error = ""
    /\ persons = <<>>
    /\ filtering_variable_by_entity = <<>>
    /\ simulation = "Simulation"
    /\ reference_simulation = "None"
    /\ call = NoCall
    /\ outcome = "none"
    /\ result = NoResult
    /\ parameters \in
          {NoParameters} \cup
          {Parameters(method, invlo, up) :
              method \in Methods \cup {"newton", "absent"},
              invlo \in KeyValues, up \in KeyValues}
    /\ target_margins_by_variable \in {"None", "empty", "margins"}
    /\ total_population \in {"None", "0", "1000"}
    /\ steps = <<>>
    /\ calibration = NoCalibration
    /\ self_calibration = NoCalibration
    /\ has_initialize_weights \in BOOLEAN
    /\ NoSurvey
    /\ NoPeriods

SpecCalibrate == InitCalibrate /\ [][NextCalibrate]_vars

----------------------------------------------------------------------------
(* Properties of calibrate *)

\* The parameters of the call are invalid: a method that is not one of the
\* three, or logit without both of its bounds.
InvalidParameters(p) ==
    /\ p.given
    /\ \/ p.method \notin Methods
       \/ p.method = "logit" /\ (p.invlo \in {"absent", "None"} \/
                                 p.up \in {"absent", "None"})

\* C12: calibrate called with invalid parameters fails at once: no step of
\* the calibration (weight initialisation, setting targets, running the
\* calibration, applying the calibrated weights) takes effect, and
\* self.calibration is not set.
C12_InvalidParametersNoEffect ==
    (pc # "idle" /\ InvalidParameters(parameters)) =>
        /\ steps = <<>>
        /\ self_calibration = NoCalibration
        /\ outcome # "returned"

\* The calls of a successful calibrate, in order.
ExpectedSteps ==
    <<"initialize_weights", "Calibration", "parameters.update">> \o
    (IF target_margins_by_variable # "None"
     THEN <<"set_target_margins">> ELSE <<>>) \o
    <<"calibrate", "set_calibrated_weights">>

IsPrefix(s, t) == Len(s) <= Len(t) /\ \A i \in DOMAIN s : s[i] = t[i]

\* C13: the calls of calibrate happen in the order: Calibration built,
\* parameters updated (with logit, up = 3, invlo = 3 when none are given),
\* target margins set (only when given), calibration run, calibrated weights
\* applied; each happens once, and the calibration is stored on the scenario
\* only with the application of the weights, after a run that returned.
C13_CalibrateStepsInOrder ==
    pc \in {"calibrate", "build", "validate", "update", "margins", "run",
            "apply", "calibrated", "failed"} =>
        /\ IsPrefix(steps, ExpectedSteps)
        /\ outcome = "returned" <=> steps = ExpectedSteps
        /\ outcome = "returned" =>
              /\ self_calibration = calibration
              /\ calibration.calibrated
              /\ calibration.parameters.method # "unset"
              /\ calibration.margins =
                    (IF target_margins_by_variable = "None" THEN "unset"
                     ELSE target_margins_by_variable)
        /\ outcome # "returned" => self_calibration = NoCalibration
        /\ (pc \in {"margins", "run", "apply", "calibrated"}
              /\ ~parameters.given) =>
              calibration.parameters =
                  [method |-> "logit", invlo |-> "3", up |-> "3"]
        /\ (pc \in {"margins", "run", "apply", "calibrated"}
              /\ parameters.given) =>
              calibration.parameters.method = parameters.method

\* C13 witness: a call without parameters and with target margins that has
\* returned, the calibration stored with the default parameters.
C13_Witness ==
    /\ pc = "calibrated"
    /\ outcome = "returned"
    /\ Len(steps) = 6
    /\ steps[4] = "set_target_margins"
    /\ ~parameters.given
    /\ self_calibration.calibrated
    /\ self_calibration.parameters =
          [method |-> "logit", invlo |-> "3", up |-> "3"]

----------------------------------------------------------------------------
(* Properties of the assertion on aggfunc *)

\* C14: a call of compute_aggregate or compute_pivot_table with an aggfunc
\* other than 'count', 'mean' and 'sum' raises the assertion error, returns
\* nothing, and leaves self.simulation and self.reference_simulation as they
\* were: no simulation is looked up or created.
C14_InvalidAggfuncFailsFirst ==
    [][(outcome = "none" /\ outcome' # "none"
          /\ call'.method \in {"compute_aggregate", "compute_pivot_table"}
          /\ call'.aggfunc \notin {"count", "mean", "sum"}) =>
            /\ outcome' = "AssertionError"
            /\ result' = NoResult
            /\ simulation' = simulation
            /\ reference_simulation' = reference_simulation]_vars

\* C14 witness: a difference of pivot tables asked with the aggfunc 'median'
\* of a known variable has raised, the scenario still without simulations.
C14_Witness ==
    /\ call.method = "compute_pivot_table"
    /\ call.difference
    /\ call.aggfunc = "median"
    /\ call.variable = "impot"
    /\ outcome = "AssertionError"
    /\ simulation = "None"
    /\ reference_simulation = "None"

----------------------------------------------------------------------------
(* surveys.py: column names and ident_re *)

\* Column names, character by character.
n_ident == <<"i", "d", "e", "n", "t">>
n_ident08 == <<"i", "d", "e", "n", "t", "0", "8">>
n_Ident2009 == <<"I", "d", "e", "n", "t", "2", "0", "0", "9">>
n_ident7 == <<"i", "d", "e", "n", "t", "7">>
n_ident20081 == <<"i", "d", "e", "n", "t", "2", "0", "0", "8", "1">>
n_age == <<"a", "g", "e">>

Digits == {"0", "1", "2", "3", "4", "5", "6", "7", "8", "9"}

UpperToLower ==
    [A |-> "a", D |-> "d", E |-> "e", G |-> "g", I |-> "i", N |-> "n",
     T |-> "t"]

\* str.lower()
Lower(name) ==
    [i \in DOMAIN name |->
        IF name[i] \in DOMAIN UpperToLower THEN UpperToLower[name[i]]
        ELSE name[i]]

\* ident_re.match(name) is not None, for ident_re = (?i)ident\d{2,4}$ :
\* "ident" in any letter case, then two to four digits, then the end.
IdentMatch(name) ==
    /\ Len(name) \in 7..9
    /\ Lower(SubSeq(name, 1, 5)) = n_ident
    /\ \A i \in 6..Len(name) : name[i] \in Digits

\* Lines 210-214, and 142-146 in get_columns: the first column whose name
\* matches is renamed to "ident" (rename acts on every column of that
\* name), and the loop breaks.
RenameIdent(columns) ==
    LET matching == {i \in DOMAIN columns : IdentMatch(columns[i])}
    IN  IF matching = {} THEN columns
        ELSE LET first == CHOOSE i \in matching : \A j \in matching : i <= j
             IN  [i \in DOMAIN columns |->
                     IF columns[i] = columns[first] THEN n_ident
                     ELSE columns[i]]

\* Lines 205-207: every column name in lowercase.
LowerColumns(columns) == [i \in DOMAIN columns |-> Lower(columns[i])]

\* df[variables] that keeps every column.
SelectAllColumns(columns, variables) == columns

\* Line 223, df[variables]: the columns of the names asked for (pandas lists
\* them in the order of a set; here, in the order of the table).
SelectColumns(columns, variables) ==
    SelectSeq(columns, LAMBDA c : c \in variables)

----------------------------------------------------------------------------
(* surveys.py: the store and the methods of Survey *)

\* A stored table: its column names and its number of rows.
Table(columns, rows) == [columns |-> columns, rows |-> rows]
NoTable == Table(<<>>, 0)

\* A log record.
LogRecord(level, message, table, available) ==
    [level |-> level, message |-> message, table |-> table,
     available |-> available]

\* Lines 200-201 without the list of the available tables.
MissingTableLogNoKeys(table, file) ==
    <<LogRecord("error", "No table in the file", table, {})>>

\* Lines 200-201: the two errors logged for a table the store lacks, the
\* second with store.keys().
MissingTableLog(table, file) ==
    <<LogRecord("error", "No table in the file", table, {}),
      LogRecord("error", "Available tables are", table, DOMAIN file.tables)>>

\* What a call of a Survey method does: the exception it raises ("" if
\* none), the store handles it opens and closes, what it logs and returns.
Done(raised, opened, closed, logged, value) ==
    [raised |-> raised, opened |-> opened, closed |-> closed,
     logged |-> logged, value |-> value]

\* Lines 209-214: the renaming and its log record.
RenameLog(columns, table) ==
    IF \E i \in DOMAIN columns : IdentMatch(columns[i])
    THEN <<LogRecord("info", "column have been replaced by ident", table, {})>>
    ELSE <<>>

\* Survey.get_values, lines 173-224; variables is None (given = FALSE) or a
\* list of names.
get_values(path, file, given, variables, table, lowercase, rename_ident) ==
    IF path = "None" \/ ~file.exists
    THEN Done("AssertionError", 0, 0, <<>>, NoTable)
    ELSE IF table \notin DOMAIN file.tables
    THEN Done("KeyError", 1, 1, MissingTableLog(table, file), NoTable)
    ELSE
    LET df == file.tables[table]
        lowered == IF lowercase THEN LowerColumns(df.columns) ELSE df.columns
        renamed == IF rename_ident THEN RenameIdent(lowered) ELSE lowered
        logged == IF rename_ident THEN RenameLog(lowered, table) ELSE <<>>
    IN  IF ~given THEN Done("", 1, 0, logged, Table(renamed, df.rows))
        ELSE IF variables \ Range(renamed) # {}
        THEN Done("Exception", 1, 0, logged, NoTable)
        ELSE Done("", 1, 0, logged,
                  Table(SelectColumns(renamed, variables), df.rows))

\* Survey.get_columns, lines 135-150. The store is opened in append mode,
\* which creates the file when there is none.
get_columns(path, file, table, rename_ident) ==
    IF path = "None" THEN Done("Exception", 0, 0, <<>>, NoTable)
    ELSE IF table \in DOMAIN file.tables
    THEN LET columns == file.tables[table].columns
         IN  Done("", 1, 0,
                  <<LogRecord("info", "Building columns index", table, {})>> \o
                  (IF rename_ident THEN RenameLog(columns, table) ELSE <<>>),
                  Table(IF rename_ident THEN RenameIdent(columns) ELSE columns,
                        0))
    ELSE Done("", 1, 0, <<LogRecord("info", "table was not found", table, {})>>,
              NoTable)

\* pandas.HDFStore(path) in append mode.
Opened(path, file) ==
    IF path = "None" THEN file ELSE [file EXCEPT !.exists = TRUE]

\* Table.save_data_frame: the table is written to the file under its name,
\* in place of a table of that name.
save_data_frame(file, name, data_frame) ==
    [exists |-> TRUE,
     tables |-> [t \in DOMAIN file.tables \cup {name} |->
                    IF t = name THEN data_frame ELSE file.tables[t]]]

MaxCalls == 2   \* calls of Survey methods in a run

\* A call of a Survey method, as survey_call records it.
SurveyCall(method, table, given, variables, lowercase, rename_ident, with_data, data_frame) ==
    [method |-> method, table |-> table, given |-> given,
     variables |-> variables, lowercase |-> lowercase,
     rename_ident |-> rename_ident, with_data |-> with_data,
     data_frame |-> data_frame]

SurveyResult(kind, table, container_tables) ==
    [kind |-> kind, columns |-> table.columns, rows |-> table.rows,
     tables |-> container_tables]

Outcome(raised) == IF raised = "" THEN "returned" ELSE raised

\* Survey.insert_table(name = name, data_frame = data_frame), lines 226-250;
\* data_frame is None when with_data is FALSE.
InsertTable(name, with_data, data_frame) ==
    /\ pc = "survey"
    /\ calls < MaxCalls
    /\ calls' = calls + 1
    /\ survey_call' = SurveyCall("insert_table", name, FALSE, {}, FALSE, FALSE,
                                 with_data,
                                 IF with_data THEN data_frame ELSE NoTable)
    /\ survey_result' = NoSurveyResult
    /\ IF with_data /\ hdf5_file_path = "None"
       THEN /\ outcome' = "AssertionError"
            /\ log' = <<>>
            /\ UNCHANGED <<hdf, tables>>
       ELSE /\ outcome' = "returned"
            /\ log' = IF with_data
                      THEN <<LogRecord("debug", "Saving table", name, {})>>
                      ELSE <<>>
            /\ hdf' = IF with_data THEN save_data_frame(hdf, name, data_frame)
                      ELSE hdf
            /\ tables' = tables \cup {name}
    /\ UNCHANGED <<hdf5_file_path, tables_index, open_stores>>

\* Survey.get_values, lines 173-224.
GetValues(given, variables, table, lowercase, rename_ident) ==
    LET done == get_values(hdf5_file_path, hdf, given, variables, table,
                           lowercase, rename_ident)
    IN  /\ pc = "survey"
        /\ calls < MaxCalls
        /\ calls' = calls + 1
        /\ survey_call' = SurveyCall("get_values", table, given, variables,
                                     lowercase, rename_ident, FALSE, NoTable)
        /\ outcome' = Outcome(done.raised)
        /\ survey_result' = IF done.raised = ""
                            THEN SurveyResult("table", done.value, {})
                            ELSE NoSurveyResult
        /\ log' = done.logged
        /\ open_stores' = open_stores + done.opened - done.closed
        /\ UNCHANGED <<hdf5_file_path, hdf, tables, tables_index>>

\* Survey.get_columns, lines 135-150.
GetColumns(table, rename_ident) ==
    LET done == get_columns(hdf5_file_path, hdf, table, rename_ident)
    IN  /\ pc = "survey"
        /\ calls < MaxCalls
        /\ calls' = calls + 1
        /\ survey_call' = SurveyCall("get_columns", table, FALSE, {}, FALSE,
                                     rename_ident, FALSE, NoTable)
        /\ outcome' = Outcome(done.raised)
        /\ survey_result' = IF done.raised = ""
                            THEN SurveyResult("columns", done.value, {})
                            ELSE NoSurveyResult
        /\ log' = done.logged
        /\ open_stores' = open_stores + done.opened - done.closed
        /\ hdf' = IF done.opened > 0 THEN Opened(hdf5_file_path, hdf) ELSE hdf
        /\ UNCHANGED <<hdf5_file_path, tables, tables_index>>

RECURSIVE LogOfTables(_, _)
\* What get_columns logs for each of a set of tables, one table after another.
LogOfTables(todo_tables, file) ==
    IF todo_tables = {} THEN <<>>
    ELSE LET table == CHOOSE t \in todo_tables : TRUE
         IN  get_columns("path", file, table, TRUE).logged \o
             LogOfTables(todo_tables \ {table}, file)

\* Survey.find_tables(variable), lines 120-133: the columns of every table
\* of self.tables that tables_index lacks are read with get_columns.
FindTables(variable) ==
    LET uncached == tables \ DOMAIN tables_index
    IN  /\ pc = "survey"
        /\ calls < MaxCalls
        /\ calls' = calls + 1
        /\ survey_call' = SurveyCall("find_tables", "none", TRUE, {variable},
                                     FALSE, TRUE, FALSE, NoTable)
        /\ IF uncached # {} /\ hdf5_file_path = "None"
           THEN /\ outcome' = "Exception"
                /\ survey_result' = NoSurveyResult
                /\ log' = <<>>
                /\ UNCHANGED <<tables_index, open_stores, hdf>>
           ELSE /\ outcome' = "returned"
                /\ tables_index' =
                      [t \in DOMAIN tables_index \cup uncached |->
                          IF t \in uncached
                          THEN get_columns(hdf5_file_path, hdf, t, TRUE)
                                   .value.columns
                          ELSE tables_index[t]]
                /\ survey_result' =
                      SurveyResult("tables", NoTable,
                          {t \in tables : variable \in Range(tables_index'[t])})
                /\ log' = LogOfTables(uncached, hdf)
                /\ open_stores' = open_stores + Cardinality(uncached)
                /\ hdf' = IF uncached # {} THEN Opened(hdf5_file_path, hdf)
                          ELSE hdf
        /\ UNCHANGED <<hdf5_file_path, tables>>

\* The arguments the calls are made with.
TableNames == {"t1", "t2"}
ColumnLists ==
    {<<n_age>>, <<n_ident08, n_age>>, <<n_age, n_Ident2009>>,
     <<n_ident08, n_Ident2009>>, <<n_ident, n_ident08>>,
     <<n_ident7, n_ident20081>>}
RowCounts == {0, 3}
DataFrames == {Table(columns, rows) : columns \in ColumnLists, rows \in RowCounts}
VariableLists == {{}, {n_age}, {n_ident}, {n_ident08}, {n_ident, n_age}}

\* variables = None, or a list of names
VariablesArguments ==
    {[given |-> FALSE, names |-> {}]} \cup
    {[given |-> TRUE, names |-> names] : names \in VariableLists}

\* data_frame = None, or a data frame
DataFrameArguments ==
    {[with_data |-> FALSE, data_frame |-> NoTable]} \cup
    {[with_data |-> TRUE, data_frame |-> data_frame] :
        data_frame \in DataFrames}

NextSurvey ==
    /\ \/ \E name \in TableNames, argument \in DataFrameArguments :
               InsertTable(name, argument.with_data, argument.data_frame)
       \/ \E argument \in VariablesArguments, table \in TableNames,
             lowercase \in BOOLEAN, rename_ident \in BOOLEAN :
               GetValues(argument.given, argument.names, table, lowercase,
                         rename_ident)
       \/ \E table \in TableNames, rename_ident \in BOOLEAN :
               GetColumns(table, rename_ident)
       \/ \E variable \in {n_ident, n_ident08, n_age} : FindTables(variable)
    /\ UNCHANGED <<pc, survey_table, input_data_frame, used_as_input_variables,
                   entities, todo, col, holders, error>>
    /\ UNCHANGED <<persons, filtering_variable_by_entity, simulation,
                   reference_simulation, call, result>>
    /\ UNCHANGED <<calibrateVars, periodVars>>

\* A survey without a path, or with one: no file there yet, or a file that
\* holds a table of the survey.
InitSurvey ==
    /\ pc = "survey"
    /\ survey_table = <<>>
    /\ input_data_frame = <<>>
    /\ used_as_input_variables = {}
    /\ entities = <<>>
    /\ todo = {}
    /\ col = 1
    /\ holders = <<>>
    /\ error = ""
    /\ persons = <<>>
    /\ filtering_variable_by_entity = <<>>
    /\ simulation = "None"
    /\ reference_simulation = "None"
    /\ call = NoCall
    /\ outcome = "none"
    /\ result = NoResult
    /\ NoCalibrate
    /\ NoPeriods
    /\ hdf5_file_path \in {"None", "path"}
    /\ hdf \in {NoFile} \cup
               (IF hdf5_file_path = "None" THEN {}
                ELSE {save_data_frame(NoFile, "t1", data_frame) :
                         data_frame \in DataFrames})
    /\ tables = DOMAIN hdf.tables
    /\ tables_index = <<>>
    /\ open_stores = 0
    /\ log = <<>>
    /\ survey_call = NoSurveyCall
    /\ survey_result = NoSurveyResult
    /\ calls = 0

SpecSurvey == InitSurvey /\ [][NextSurvey]_vars

----------------------------------------------------------------------------
(* Properties of the Survey methods *)

\* C15: every access to the storage file is scoped: after any sequence of
\* get_values, get_columns and find_tables calls, returned or raised, no
\* store handle that the calls opened is still open.
C15_NoStoreLeftOpen == open_stores = 0

\* The last call was get_values for a table that the store, which exists,
\* does not hold.
MissingTableCall ==
    /\ survey_call.method = "get_values"
    /\ hdf5_file_path = "path"
    /\ hdf.exists
    /\ survey_call.table \notin DOMAIN hdf.tables

\* C16: get_values for a table name that is absent from the store logs the
\* error and the list of the available tables, then raises the missing-table
\* error (KeyError) to the caller, and returns no table.
C16_MissingTableLoggedAndRaised ==
    MissingTableCall =>
        /\ outcome = "KeyError"
        /\ survey_result = NoSurveyResult
        /\ \E i \in DOMAIN log :
              /\ log[i].level = "error"
              /\ log[i].table = survey_call.table
              /\ log[i].message = "No table in the file"
        /\ \E i \in DOMAIN log :
              /\ log[i].level = "error"
              /\ log[i].message = "Available tables are"
              /\ log[i].available = DOMAIN hdf.tables

\* C16 witness: get_values asked for t2 of a store that holds only t1, and
\* raised.
C16_Witness ==
    /\ MissingTableCall
    /\ survey_call.table = "t2"
    /\ DOMAIN hdf.tables = {"t1"}
    /\ outcome = "KeyError"
    /\ Len(log) = 2

\* The columns of the stored table that the last call read.
StoredColumns ==
    IF survey_call.table \in DOMAIN hdf.tables
    THEN hdf.tables[survey_call.table].columns ELSE <<>>

\* A name of the form "ident" (in any letter case) and 2 to 4 digits.
IdentYearForm(name) ==
    \E digits \in 2..4 :
        /\ Len(name) = 5 + digits
        /\ Lower(SubSeq(name, 1, 5)) = n_ident
        /\ \A i \in 6..Len(name) : name[i] \in Digits

\* A column name with its identifier form replaced by "ident".
Canonical(name) == IF IdentYearForm(name) THEN n_ident ELSE name

\* C17: after get_values or get_columns with rename_ident = True, no column
\* name returned is "ident" followed by 2 to 4 digits (in any letter case):
\* each such column of the stored table is returned as "ident", and the
\* other columns keep their names.
C17_NoIdentYearColumnLeft ==
    (/\ survey_call.method \in {"get_values", "get_columns"}
     /\ survey_call.rename_ident
     /\ ~survey_call.given
     /\ ~survey_call.lowercase
     /\ outcome = "returned") =>
        /\ \A i \in DOMAIN survey_result.columns :
              ~IdentYearForm(survey_result.columns[i])
        /\ Len(survey_result.columns) = Len(StoredColumns)
        /\ \A i \in DOMAIN StoredColumns :
              survey_result.columns[i] = Canonical(StoredColumns[i])

\* The last call was get_values, without lowercase, for a table of the store.
ReadBack ==
    /\ survey_call.method = "get_values"
    /\ ~survey_call.lowercase
    /\ hdf5_file_path = "path"
    /\ survey_call.table \in DOMAIN hdf.tables

\* The table is read back whole: the same number of rows, and the same
\* column set up to the renaming of identifier columns.
ReadBackWhole ==
    /\ outcome = "returned"
    /\ survey_result.rows = hdf.tables[survey_call.table].rows
    /\ Len(survey_result.columns) = Len(StoredColumns)
    /\ {Canonical(c) : c \in Range(survey_result.columns)} =
          {Canonical(c) : c \in Range(StoredColumns)}

\* insert_table has stored its data frame under its name.
Inserted ==
    (/\ survey_call.method = "insert_table"
     /\ survey_call.with_data
     /\ outcome = "returned") =>
        /\ survey_call.table \in DOMAIN hdf.tables
        /\ hdf.tables[survey_call.table] = survey_call.data_frame

\* C18 as stated: after insert_table(name, data_frame), get_values(table =
\* name) with variables = None returns the rows and, up to identifier
\* renaming, the columns of data_frame; with a list of variables it returns
\* exactly those columns, or raises when one of them is not a column of the
\* table.
C18_Original_RoundTrip ==
    /\ Inserted
    /\ ReadBack =>
          IF ~survey_call.given THEN ReadBackWhole
          ELSE IF survey_call.variables \subseteq Range(StoredColumns)
          THEN /\ outcome = "returned"
               /\ Range(survey_result.columns) = survey_call.variables
          ELSE outcome = "Exception"

\* The names of the columns of the stored table once it is read: with
\* rename_ident, the first column of an identifier form goes by "ident".
NamesAsRead ==
    LET matching == {i \in DOMAIN StoredColumns :
                        Canonical(StoredColumns[i]) # StoredColumns[i]}
    IN  IF ~survey_call.rename_ident \/ matching = {}
        THEN Range(StoredColumns)
        ELSE (Range(StoredColumns) \
                 {StoredColumns[i] : i \in {j \in matching :
                                              \A k \in matching : j <= k}})
             \cup {n_ident}

\* C18: after insert_table(name, data_frame), get_values(table = name) with
\* variables = None returns the rows and, up to identifier renaming, the
\* columns of data_frame; with a list of variables it returns exactly the
\* columns of those names and all the rows when every variable is a column
\* name of the table as read (after the renaming of its identifier column),
\* and raises otherwise.
C18_RoundTripOnNamesAsRead ==
    /\ Inserted
    /\ ReadBack =>
          IF ~survey_call.given
          THEN ReadBackWhole /\ Range(survey_result.columns) = NamesAsRead
          ELSE IF survey_call.variables \subseteq NamesAsRead
          THEN /\ outcome = "returned"
               /\ Range(survey_result.columns) = survey_call.variables
               /\ survey_result.rows = hdf.tables[survey_call.table].rows
          ELSE /\ outcome = "Exception"
               /\ survey_result = NoSurveyResult

\* C18 witness: a table inserted as t2, of three rows with an identifier
\* column and another, is read back by get_values for the variable "ident".
C18_Witness ==
    /\ ReadBack
    /\ calls = 2
    /\ survey_call.table = "t2"
    /\ StoredColumns = <<n_ident08, n_age>>
    /\ survey_call.given
    /\ survey_call.variables = {n_ident}
    /\ survey_call.rename_ident
    /\ outcome = "returned"
    /\ survey_result.columns = <<n_ident>>
    /\ survey_result.rows = 3

----------------------------------------------------------------------------
(* new_simulation: the periods of the input tables *)

MaxKeys == 2   \* keys of input_data_table_by_period

\* Period keys, as str(period) gives them, character by character; the key
\* None is the period written k_None.
k_None == <<"None">>
k_2014 == <<"2", "0", "1", "4">>
k_2014_03 == <<"2", "0", "1", "4", "-", "0", "3">>
k_2014_12 == <<"2", "0", "1", "4", "-", "1", "2">>
k_2014_Q1 == <<"2", "0", "1", "4", "-", "Q", "1">>
k_2014_Q2 == <<"2", "0", "1", "4", "-", "Q", "2">>
k_2014_Q4 == <<"2", "0", "1", "4", "-", "Q", "4">>
k_2014_Q5 == <<"2", "0", "1", "4", "-", "Q", "5">>
k_2014_13 == <<"2", "0", "1", "4", "-", "1", "3">>
k_2014_3 == <<"2", "0", "1", "4", "-", "3">>
k_14 == <<"1", "4">>

PeriodKeys ==
    {k_None, k_2014, k_2014_03, k_2014_12, k_2014_Q1, k_2014_Q2, k_2014_Q4,
     k_2014_Q5, k_2014_13, k_2014_3, k_14}

DigitChars == <<"0", "1", "2", "3", "4", "5", "6", "7", "8", "9">>

\* int(c) of a digit
DigitValue(c) == (CHOOSE i \in DOMAIN DigitChars : DigitChars[i] = c) - 1

\* "{}".format(n) of a number below 100
Decimal(n) ==
    IF n < 10 THEN <<DigitChars[n + 1]>>
    ELSE <<DigitChars[(n \div 10) + 1], DigitChars[(n % 10) + 1]>>

\* Line 347, the regular expression
\* ^(?:19|20)[0-9]{2,2}(?:\-(0[0-9]|1[0-2]|Q[1-4])){0,1}$ : whether the
\* string matches without, or with, the part after the year.
MatchesYear(period_str) ==
    /\ Len(period_str) >= 4
    /\ SubSeq(period_str, 1, 2) \in {<<"1", "9">>, <<"2", "0">>}
    /\ period_str[3] \in Digits
    /\ period_str[4] \in Digits
MatchesSubPeriod(period_str) ==
    /\ Len(period_str) = 7
    /\ MatchesYear(period_str)
    /\ period_str[5] = "-"
    /\ \/ period_str[6] = "0" /\ period_str[7] \in Digits
       \/ period_str[6] = "1" /\ period_str[7] \in {"0", "1", "2"}
       \/ period_str[6] = "Q" /\ period_str[7] \in {"1", "2", "3", "4"}

\* regex.findall(period_str): the list of what the group captured in each
\* match: [''] for a year, ['03'] or ['Q2'] for a month or a quarter, and
\* the empty list when the string does not match.
findall(period_str) ==
    IF Len(period_str) = 4 /\ MatchesYear(period_str) THEN << <<>> >>
    ELSE IF MatchesSubPeriod(period_str) THEN <<SubSeq(period_str, 6, 7)>>
    ELSE <<>>

\* range(a, b)
PyRange(a, b) == [i \in 1..(IF b > a THEN b - a ELSE 0) |-> a + i - 1]

\* Lines 370-376: the month periods of a quarter period.
quarter_month_periods(period_str) ==
    LET year == SubSeq(period_str, 1, 4)
        quarter == DigitValue(period_str[Len(period_str)])
        quarter_month_range == PyRange(4 * (quarter - 1) + 1, 4 * quarter)
    IN  [i \in DOMAIN quarter_month_range |->
            IF quarter_month_range[i] >= 10
            THEN year \o <<"-">> \o Decimal(quarter_month_range[i])
            ELSE year \o <<"-", "0">> \o Decimal(quarter_month_range[i])]

\* Lines 346-393: the periods init_simulation_with_data_frame is called with
\* for one key. The assertion of line 348 compares the list that findall
\* returns with None and so never fails; 'Q' in period_type asks whether the
\* list has the element 'Q'.
PeriodsInitialised(period) ==
    LET period_type == findall(period)
    IN  IF Len(period_type) = 0 \/ period_type[1] = <<>>
        THEN <<period>>
        ELSE IF <<"Q">> \in Range(period_type)
        THEN quarter_month_periods(period)
        ELSE <<period>>

\* One round of the loop of line 339 (a dictionary is gone through in no
\* given order): the assertion of line 340, then the initialisations.
NewSimulationPeriod(period) ==
    /\ pc = "new_simulation"
    /\ period \in periods_todo
    /\ IF period = k_None
       THEN /\ outcome' = "AssertionError"
            /\ pc' = "failed"
            /\ UNCHANGED <<periods_todo, initialised>>
       ELSE /\ initialised' = initialised \o PeriodsInitialised(period)
            /\ periods_todo' = periods_todo \ {period}
            /\ UNCHANGED <<outcome, pc>>
    /\ UNCHANGED <<simulation, reference_simulation, call,
                   input_data_table_by_period>>

\* Lines 402-412: the simulation is stored on the scenario and returned.
NewSimulationStore ==
    /\ pc = "new_simulation"
    /\ periods_todo = {}
    /\ simulation' = IF call.reference THEN simulation ELSE "Simulation"
    /\ reference_simulation' =
          IF call.reference THEN "Simulation" ELSE reference_simulation
    /\ outcome' = "returned"
    /\ pc' = "simulated"
    /\ UNCHANGED <<call, input_data_table_by_period, periods_todo,
                   initialised>>

NextNewSimulation ==
    /\ \/ \E period \in PeriodKeys : NewSimulationPeriod(period)
       \/ NewSimulationStore
    /\ UNCHANGED <<survey_table, input_data_frame, used_as_input_variables,
                   entities, todo, col, holders, error>>
    /\ UNCHANGED <<persons, filtering_variable_by_entity, result>>
    /\ UNCHANGED <<calibrateVars, surveyVars>>

\* A call of new_simulation, for the scenario or its reference, with the
\* input tables of up to MaxKeys periods.
InitNewSimulation ==
    /\ pc = "new_simulation"
    /\ survey_table = <<>>
    /\ input_data_frame = <<>>
    /\ used_as_input_variables = {}
    /\ entities = <<>>
    /\ todo = {}
    /\ col = 1
    /\ holders = <<>>
    /\ error = ""
    /\ persons = <<>>
    /\ filtering_variable_by_entity = <<>>
    /\ simulation = "None"
    /\ reference_simulation = "None"
    /\ \E reference \in BOOLEAN :
          call = [NoCall EXCEPT !.method = "new_simulation",
                                !.reference = reference]
    /\ outcome = "none"
    /\ result = NoResult
    /\ NoCalibrate
    /\ NoSurvey
    /\ input_data_table_by_period \in
          {keys \in SUBSET PeriodKeys : Cardinality(keys) <= MaxKeys}
    /\ periods_todo = input_data_table_by_period
    /\ initialised = <<>>

SpecNewSimulation == InitNewSimulation /\ [][NextNewSimulation]_vars

----------------------------------------------------------------------------
(* Properties of new_simulation *)

\* How many times a period was given to init_simulation_with_data_frame.
TimesInitialised(period) ==
    Cardinality({i \in DOMAIN initialised : initialised[i] = period})

\* The keys of the three accepted formats, with the periods each stands
\* for: a year or a month stands for itself, a quarter for its three months.
YearKeys == {k_2014}
MonthKeys == {k_2014_03, k_2014_12}
QuarterMonths ==
    (k_2014_Q1 :> {<<"2", "0", "1", "4", "-", "0", "1">>, <<"2", "0", "1", "4", "-", "0", "2">>, <<"2", "0", "1", "4", "-", "0", "3">>}) @@
    (k_2014_Q2 :> {<<"2", "0", "1", "4", "-", "0", "4">>, <<"2", "0", "1", "4", "-", "0", "5">>, <<"2", "0", "1", "4", "-", "0", "6">>}) @@
    (k_2014_Q4 :> {<<"2", "0", "1", "4", "-", "1", "0">>, <<"2", "0", "1", "4", "-", "1", "1">>, <<"2", "0", "1", "4", "-", "1", "2">>})
AcceptedKeys == YearKeys \cup MonthKeys \cup DOMAIN QuarterMonths
PeriodsOf(key) ==
    IF key \in DOMAIN QuarterMonths THEN QuarterMonths[key] ELSE {key}

\* C19: once new_simulation has gone through input tables whose keys are
\* years, months and quarters, each period was initialised once for each key
\* it belongs to: a quarter key yyyy-Qq initialises its three months (q = 1:
\* 01..03, q = 2: 04..06, q = 4: 10..12) and no other period, a year key and
\* a month key exactly that period.
C19_QuarterInitialisesItsMonths ==
    (pc = "simulated" /\ input_data_table_by_period \subseteq AcceptedKeys) =>
        /\ \A key \in input_data_table_by_period :
              \A period \in PeriodsOf(key) :
                  TimesInitialised(period) =
                      Cardinality({k \in input_data_table_by_period :
                                      period \in PeriodsOf(k)})
        /\ Range(initialised) =
              UNION {PeriodsOf(key) : key \in input_data_table_by_period}

\* C20: new_simulation rejects with an assertion error every key whose
\* string form is not of the format yyyy, yyyy-mm or yyyy-Qq, and runs no
\* initialisation for such a key.
C20_BadPeriodFormatRejected ==
    \A key \in input_data_table_by_period \ AcceptedKeys :
        /\ key \notin Range(initialised)
        /\ key \notin periods_todo => outcome = "AssertionError"
        /\ pc # "simulated"

----------------------------------------------------------------------------
(* Survey.tables_index, an attribute of the class *)

\* Another Survey object, with a file of its own that holds a table t1:
\* tables_index is set on the class (line 39) and never on the object, so
\* the two surveys read and fill the same dictionary.
OtherSurveyTables == {"t1"}
OtherSurveyFile ==
    save_data_frame(NoFile, "t1", Table(<<n_age, n_ident20081>>, 3))

\* find_tables(variable) called on the other survey, lines 120-133.
OtherFindTables(variable) ==
    LET uncached == OtherSurveyTables \ DOMAIN tables_index
    IN  /\ pc = "survey"
        /\ calls < MaxCalls
        /\ calls' = calls + 1
        /\ survey_call' = SurveyCall("other.find_tables", "none", TRUE,
                                     {variable}, FALSE, TRUE, FALSE, NoTable)
        /\ outcome' = "returned"
        /\ tables_index' =
              [t \in DOMAIN tables_index \cup uncached |->
                  IF t \in uncached
                  THEN get_columns("path", OtherSurveyFile, t, TRUE)
                           .value.columns
                  ELSE tables_index[t]]
        /\ survey_result' =
              SurveyResult("tables", NoTable,
                  {t \in OtherSurveyTables :
                      variable \in Range(tables_index'[t])})
        /\ log' = LogOfTables(uncached, OtherSurveyFile)
        /\ open_stores' = open_stores + Cardinality(uncached)
        /\ UNCHANGED <<hdf5_file_path, hdf, tables>>

\* insert_table and find_tables on a survey, and find_tables on another.
NextIndex ==
    /\ \/ \E name \in TableNames, argument \in DataFrameArguments :
               InsertTable(name, argument.with_data, argument.data_frame)
       \/ \E variable \in {n_ident, n_ident08, n_age} : FindTables(variable)
       \/ \E variable \in {n_ident, n_ident08, n_age} :
               OtherFindTables(variable)
    /\ UNCHANGED <<pc, survey_table, input_data_frame, used_as_input_variables,
                   entities, todo, col, holders, error>>
    /\ UNCHANGED <<persons, filtering_variable_by_entity, simulation,
                   reference_simulation, call, result>>
    /\ UNCHANGED <<calibrateVars, periodVars>>

SpecIndex == InitSurvey /\ [][NextIndex]_vars

\* The column names of a table of the survey's file as get_columns reads
\* them now; none for a table the file lacks.
ColumnsNow(table) ==
    IF table \in DOMAIN hdf.tables
    THEN Range(RenameIdent(hdf.tables[table].columns)) ELSE {}

\* C21: after any sequence of insert_table and find_tables calls on one or
\* several surveys, find_tables(variable) on a survey returns exactly the
\* tables of that survey whose columns, as stored now, contain the variable:
\* the index it keeps for one of its tables holds the columns of that table
\* as the survey's own file has them now.
C21_IndexFreshAndOwn ==
    /\ (survey_call.method = "find_tables" /\ outcome = "returned") =>
          survey_result.tables =
              {t \in tables :
                  \E variable \in survey_call.variables :
                      variable \in ColumnsNow(t)}
    /\ hdf5_file_path = "path" =>
          \A t \in tables \cap DOMAIN tables_index :
              Range(tables_index[t]) = ColumnsNow(t)

====
